---------------------------- MODULE Spec2Model ----------------------------
(***************************************************************************)
(* The re-export shim of gargoyle / garguile (guile bindings for rust):    *)
(* three revisions of reexports.c and the header reexports.h.  Every       *)
(* exported constant copies a libguile macro and every exported function   *)
(* is one call into a libguile macro or inline function, so the model is   *)
(* (1) the part of libguile the shim forwards to, as <libguile.h> defines  *)
(* it (tagged words, heap cells, bignums, the range errors), (2) one       *)
(* definition per exported symbol of each revision, (3) a client that      *)
(* links one revision and calls it.                                        *)
(*                                                                         *)
(* Machine: scm_t_bits, intptr_t and uintptr_t are PtrBits wide (64 on the *)
(* real target; scaled here, never below the 12 bits SCM_UNDEFINED needs). *)
(* The type word of a heap cell is kept as its low 16 bits and the rest    *)
(* (lo16, hi), which is how SCM_TYP16 and SCM_SMOB_FLAGS split it.         *)
(***************************************************************************)
EXTENDS Integers, Sequences, FiniteSets, TLC

\* ------------------------------------------------------------- bounds
PtrBits == 12
NThreads == 2

\* ------------------------------------------------------ machine words
WordMod == 2 ^ PtrBits
UINTPTR_MAX == WordMod - 1
INTPTR_MAX == (WordMod \div 2) - 1
INTPTR_MIN == -(WordMod \div 2)

UintptrRange == 0 .. UINTPTR_MAX
IntptrRange == INTPTR_MIN .. INTPTR_MAX

\* A value of a wider or other-signed type stored in a uintptr_t / intptr_t.
C_uintptr(v) == v % WordMod
C_intptr(v) == ((v - INTPTR_MIN) % WordMod) + INTPTR_MIN

\* Conversion to C int (32 bits), computed on 16-bit halves.
C_int(v) ==
  LET lo == v % 65536
      hi == v \div 65536
  IN  (((hi + 32768) % 65536) - 32768) * 65536 + lo

\* Conversion to _Bool: 0 stays 0, everything else becomes 1.
C_Bool(v) == IF v = 0 THEN 0 ELSE 1

\* The C operators ! and && on int.
LNot(v) == IF v = 0 THEN 1 ELSE 0
LAnd(a, b) == IF a # 0 /\ b # 0 THEN 1 ELSE 0

RECURSIVE BitAnd(_, _)
BitAnd(a, b) ==
  IF a = 0 \/ b = 0 THEN 0
  ELSE (IF a % 2 = 1 /\ b % 2 = 1 THEN 1 ELSE 0) + 2 * BitAnd(a \div 2, b \div 2)

RECURSIVE BitXor(_, _)
BitXor(a, b) ==
  IF a = 0 THEN b
  ELSE IF b = 0 THEN a
  ELSE (IF a % 2 # b % 2 THEN 1 ELSE 0) + 2 * BitXor(a \div 2, b \div 2)

BitNot(a) == UINTPTR_MAX - a

\* --------------------------------------------- libguile: tagged words
\* An SCM is one machine word; SCM_UNPACK / SCM_PACK are the identity on it.
scm_tc2_int == 2
scm_tc3_struct == 1
scm_tc3_imm24 == 4
scm_tc8_flag == scm_tc3_imm24 + 0
scm_tc7_symbol == 5
scm_tc7_number == 23
scm_tc7_program == 69
scm_tc7_smob == 119
scm_tc16_big == scm_tc7_number + 1 * 256

SCM_MAKE_ITAG8_BITS(x, tag) == x * 256 + tag
SCM_MAKIFLAG_BITS(n) == SCM_MAKE_ITAG8_BITS(n, scm_tc8_flag)

SCM_BOOL_F == SCM_MAKIFLAG_BITS(0)
SCM_ELISP_NIL == SCM_MAKIFLAG_BITS(1)
SCM_EOL == SCM_MAKIFLAG_BITS(3)
SCM_BOOL_T == SCM_MAKIFLAG_BITS(4)
SCM_UNSPECIFIED == SCM_MAKIFLAG_BITS(8)
SCM_UNDEFINED == SCM_MAKIFLAG_BITS(9)

\* dynwind.h: scm_t_dynwind_flags and scm_t_wind_flags.
SCM_F_DYNWIND_REWINDABLE == 2 ^ 0
SCM_F_WIND_EXPLICITLY == 2 ^ 0

SCM_IMP(x) == BitAnd(6, x)
SCM_NIMP(x) == LNot(SCM_IMP(x))
SCM_I_INUMP(x) == BitAnd(2, x)

\* Fixnums: SCM_I_FIXNUM_BIT = word size - 2.
SCM_MOST_POSITIVE_FIXNUM == (WordMod \div 8) - 1
SCM_MOST_NEGATIVE_FIXNUM == -(WordMod \div 8)
SCM_POSFIXABLE(n) == n <= SCM_MOST_POSITIVE_FIXNUM
SCM_NEGFIXABLE(n) == n >= SCM_MOST_NEGATIVE_FIXNUM
SCM_FIXABLE(n) == SCM_POSFIXABLE(n) /\ SCM_NEGFIXABLE(n)
\* (x << 2) + scm_tc2_int, in a word.
SCM_I_MAKINUM(n) == C_uintptr(n * 4 + scm_tc2_int)
\* Arithmetic shift right by 2 of the word read as signed.
SCM_I_INUM(x) == (C_intptr(x) - (C_intptr(x) % 4)) \div 4

scm_is_eq(x, y) == IF x = y THEN 1 ELSE 0

SCM_MATCHES_BITS_IN_COMMON(x, a, b) ==
  IF BitAnd(x, BitNot(BitXor(a, b))) = BitAnd(a, b) THEN 1 ELSE 0
scm_is_false_or_nil(x) == SCM_MATCHES_BITS_IN_COMMON(x, SCM_ELISP_NIL, SCM_BOOL_F)
scm_is_false(x) == scm_is_false_or_nil(x)
scm_is_true(x) == LNot(scm_is_false(x))
SCM_UNBNDP(x) == scm_is_eq(x, SCM_UNDEFINED)


\* ----------------------------------------------- libguile: heap cells
\* A cell: its type word (lo16, hi), the second word of a pair (cdr), the
\* mpz of a bignum (sign, mag), and for a struct that is a vtable its flag
\* SCM_VTABLE_FLAG_GOOPS_CLASS (goops) and class precedence list (cpl).
Cell(lo16, hi) ==
  [lo16 |-> lo16, hi |-> hi, cdr |-> 0, sign |-> 0, mag |-> 0,
   goops |-> FALSE, cpl |-> <<>>]

Addr(i) == 8 * i

\* The hook smob type is the HookSmobNum-th smob type libguile registers.
HookSmobNum == 1
scm_tc16_hook == scm_tc7_smob + 256 * HookSmobNum

A_pair == Addr(1)
A_symbol == Addr(2)
A_proc == Addr(3)
A_hook0 == Addr(4)
A_hook2 == Addr(5)
A_hook16 == Addr(6)
scm_module_type == Addr(7)
A_module == Addr(8)
A_class_class == Addr(9)
A_class_top == Addr(10)
A_class_object == Addr(11)
A_classA == Addr(12)
A_classB == Addr(13)
A_instA == Addr(14)
A_instB == Addr(15)
A_big == Addr(16)
HeapStart == Addr(17)

scm_module_tag == scm_module_type + scm_tc3_struct

Pair(car, cdr) == [Cell(car % 65536, car \div 65536) EXCEPT !.cdr = cdr]
Hook(n_args) == Cell(scm_tc16_hook, n_args)
Struct(vtable) == Cell(vtable + scm_tc3_struct, 0)
Class(cpl) == [Struct(A_class_class) EXCEPT !.goops = TRUE, !.cpl = cpl]
Bignum(n) ==
  [Cell(scm_tc16_big, 0) EXCEPT !.sign = IF n < 0 THEN -1 ELSE 1,
                                !.mag = IF n < 0 THEN -n ELSE n]

\* The heap a booted libguile holds before the client's first call: one
\* object of each kind the shim's predicates tell apart.
BootCells ==
  (A_pair :> Pair(SCM_BOOL_T, SCM_EOL)) @@
  (A_symbol :> Cell(scm_tc7_symbol, 0)) @@
  (A_proc :> Cell(scm_tc7_program, 0)) @@
  (A_hook0 :> Hook(0)) @@
  (A_hook2 :> Hook(2)) @@
  (A_hook16 :> Hook(16)) @@
  (scm_module_type :> Struct(scm_module_type)) @@
  (A_module :> Struct(scm_module_type)) @@
  (A_class_class :> Class(<<A_class_class, A_class_object, A_class_top>>)) @@
  (A_class_top :> Class(<<A_class_top>>)) @@
  (A_class_object :> Class(<<A_class_object, A_class_top>>)) @@
  (A_classA :> Class(<<A_classA, A_class_object, A_class_top>>)) @@
  (A_classB :> Class(<<A_classB, A_class_object, A_class_top>>)) @@
  (A_instA :> Struct(A_classA)) @@
  (A_instB :> Struct(A_classB)) @@
  (A_big :> Bignum(INTPTR_MAX + 1))

\* The state keeps what was allocated since boot (the booted cells never
\* change); Mem is the whole heap libguile reads, Allocated the part kept.
BootHeap == [cells |-> <<>>, brk |-> HeapStart]
Mem(h) == [cells |-> h.cells @@ BootCells, brk |-> h.brk]
Allocated(H) ==
  [cells |-> [x \in {y \in DOMAIN H.cells : y >= HeapStart} |-> H.cells[x]],
   brk |-> H.brk]

\* The outcome of a call: it returned val, it left by a throw of key val,
\* or it faulted.  H is the heap after it.
Returned(H, v) == [status |-> "returned", val |-> v, H |-> H]
Thrown(H, key) == [status |-> "throw", val |-> key, H |-> H]
Fault(H) == [status |-> "fault", val |-> "SIGSEGV", H |-> H]

SCM_CELL_TYPE_LO16(H, x) == H.cells[x].lo16
SCM_TYP3(H, x) == SCM_CELL_TYPE_LO16(H, x) % 8
SCM_TYP16(H, x) == SCM_CELL_TYPE_LO16(H, x)
SCM_HAS_TYP16(H, x, tag) ==
  LAnd(SCM_NIMP(x), IF SCM_TYP16(H, x) = tag THEN 1 ELSE 0)
SCM_SMOB_PREDICATE(H, tag, x) == SCM_HAS_TYP16(H, x, tag)
SCM_HOOKP(H, x) == SCM_SMOB_PREDICATE(H, scm_tc16_hook, x)

\* SCM_CELL_TYPE (OBJ) == scm_module_tag, on the whole type word.
SCM_MODULEP(H, x) ==
  LAnd(LNot(SCM_IMP(x)),
       IF H.cells[x].lo16 = scm_module_tag /\ H.cells[x].hi = 0 THEN 1 ELSE 0)

SCM_STRUCTP(H, x) ==
  LAnd(LNot(SCM_IMP(x)), IF SCM_TYP3(H, x) = scm_tc3_struct THEN 1 ELSE 0)
SCM_STRUCT_VTABLE(H, x) == SCM_CELL_TYPE_LO16(H, x) - scm_tc3_struct
SCM_INSTANCEP(H, x) ==
  LAnd(SCM_STRUCTP(H, x),
       IF H.cells[SCM_STRUCT_VTABLE(H, x)].goops THEN 1 ELSE 0)
scm_class_of(H, x) == SCM_STRUCT_VTABLE(H, x)
scm_class_precedence_list(H, c) == H.cells[c].cpl
\* scm_memq answers the tail that starts at the element, or #f.
scm_memq(x, lst) ==
  IF \E i \in 1 .. Len(lst) : lst[i] = x THEN SCM_BOOL_T ELSE SCM_BOOL_F
SCM_IS_A_P(H, x, type) ==
  LAnd(SCM_INSTANCEP(H, x),
       scm_is_true(scm_memq(type, scm_class_precedence_list(H, scm_class_of(H, x)))))

\* SCM_SMOB_FLAGS (x) = SCM_CELL_WORD_0 (x) >> 16, of type scm_t_bits.  The
\* word is read whatever x is: for an immediate, from an address that
\* holds no cell, which is undefined (a fault, or whatever lies there).
GarbageWords == {0, 1, 65535}
SCM_SMOB_FLAGS(H, x) ==
  IF x \in DOMAIN H.cells
  THEN {Returned(H, H.cells[x].hi)}
  ELSE {Fault(H)} \cup {Returned(H, g) : g \in GarbageWords}
SCM_HOOK_ARITY(H, x) == SCM_SMOB_FLAGS(H, x)

\* ------------------------------------------- libguile: integer conversions
SCM_BIGP(H, x) == SCM_HAS_TYP16(H, x, scm_tc16_big)
BigValue(H, x) == H.cells[x].sign * H.cells[x].mag

\* make_bignum: a fresh cell at the allocation pointer.
scm_i_mkbig(H, n) ==
  Returned([cells |-> (H.brk :> Bignum(n)) @@ H.cells, brk |-> H.brk + Addr(1)],
           H.brk)

scm_from_intptr_t(H, val) ==
  IF SCM_FIXABLE(val) THEN Returned(H, SCM_I_MAKINUM(val)) ELSE scm_i_mkbig(H, val)

scm_from_uintptr_t(H, val) ==
  IF SCM_POSFIXABLE(val) THEN Returned(H, SCM_I_MAKINUM(val)) ELSE scm_i_mkbig(H, val)

scm_to_intptr_t(H, val) ==
  IF SCM_I_INUMP(val) # 0
  THEN LET n == SCM_I_INUM(val)
       IN  IF n >= INTPTR_MIN /\ n <= INTPTR_MAX
           THEN Returned(H, n) ELSE Thrown(H, "out-of-range")
  ELSE IF SCM_BIGP(H, val) # 0
  THEN LET n == BigValue(H, val)
       IN  IF n >= INTPTR_MIN /\ n <= INTPTR_MAX
           THEN Returned(H, n) ELSE Thrown(H, "out-of-range")
  ELSE Thrown(H, "wrong-type-arg")

scm_to_uintptr_t(H, val) ==
  IF SCM_I_INUMP(val) # 0
  THEN LET n == SCM_I_INUM(val)
       IN  IF n >= 0 /\ n <= UINTPTR_MAX
           THEN Returned(H, n) ELSE Thrown(H, "out-of-range")
  ELSE IF SCM_BIGP(H, val) # 0
  THEN LET n == BigValue(H, val)
       IN  IF n >= 0 /\ n <= UINTPTR_MAX
           THEN Returned(H, n) ELSE Thrown(H, "out-of-range")
  ELSE Thrown(H, "wrong-type-arg")

\* The exact integer an SCM stands for (a fixnum or a bignum), and eqv? on
\* two SCMs: the same word, or two exact integers of the same value.
IsExactInteger(H, x) == SCM_I_INUMP(x) # 0 \/ SCM_BIGP(H, x) # 0
IntegerValue(H, x) == IF SCM_I_INUMP(x) # 0 THEN SCM_I_INUM(x) ELSE BigValue(H, x)
scm_eqv_p(H, x, y) ==
  \/ x = y
  \/ /\ IsExactInteger(H, x) /\ IsExactInteger(H, y)
     /\ IntegerValue(H, x) = IntegerValue(H, y)

\* ------------------------------------------------ the shim: part_000
\* garguile: the revision with every wrapper.
GARGUILE_REEXPORTS_SCM_BOOL_T == SCM_BOOL_T
GARGUILE_REEXPORTS_SCM_BOOL_F == SCM_BOOL_F
\* Mutant: the empty list taken for #nil.
GARGUILE_REEXPORTS_SCM_EOL_Nil == SCM_ELISP_NIL
GARGUILE_REEXPORTS_SCM_EOL == SCM_EOL
GARGUILE_REEXPORTS_SCM_UNDEFINED == SCM_UNDEFINED
GARGUILE_REEXPORTS_SCM_F_DYNWIND_REWINDABLE == C_int(SCM_F_DYNWIND_REWINDABLE)
GARGUILE_REEXPORTS_SCM_F_WIND_EXPLICITLY == C_int(SCM_F_WIND_EXPLICITLY)

garguile_reexports_scm_is_true(b) == C_int(scm_is_true(b))
\* Mutant: falsity tested as identity with #f, which #nil fails.
garguile_reexports_scm_is_false_EqF(b) == C_int(scm_is_eq(b, SCM_BOOL_F))
garguile_reexports_scm_is_false(b) == C_int(scm_is_false(b))
\* Mutant: the wrapper declared _Bool, as the oldest revision's predicates.
GARGUILE_REEXPORTS_SCM_HOOK_ARITY_Bool(H, hook) ==
  {IF o.status = "returned" THEN [o EXCEPT !.val = C_Bool(@)] ELSE o :
     o \in SCM_HOOK_ARITY(H, hook)}

\* The scm_t_bits the macro yields is converted to the int returned.
GARGUILE_REEXPORTS_SCM_HOOK_ARITY(H, hook) ==
  {IF o.status = "returned" THEN [o EXCEPT !.val = C_int(@)] ELSE o :
     o \in SCM_HOOK_ARITY(H, hook)}
GARGUILE_REEXPORTS_SCM_HOOKP(H, hook) == C_int(SCM_HOOKP(H, hook))
GARGUILE_REEXPORTS_SCM_MODULEP(H, obj) == C_int(SCM_MODULEP(H, obj))
GARGUILE_REEXPORTS_SCM_IS_A_P(H, val, ty) == C_int(SCM_IS_A_P(H, val, ty))
GARGUILE_REEXPORTS_SCM_UNBNDP(scm) == C_int(SCM_UNBNDP(scm))
garguile_reexports_scm_to_uintptr_t(H, scm) == scm_to_uintptr_t(H, scm)
\* Mutant: the signed wrapper forwards to the unsigned conversion.
garguile_reexports_scm_to_intptr_t_Unsigned(H, scm) ==
  LET o == scm_to_uintptr_t(H, scm)
  IN  IF o.status = "returned" THEN [o EXCEPT !.val = C_intptr(@)] ELSE o
garguile_reexports_scm_to_intptr_t(H, scm) == scm_to_intptr_t(H, scm)
garguile_reexports_scm_from_uintptr_t(H, i) == scm_from_uintptr_t(H, i)
garguile_reexports_scm_from_intptr_t(H, i) == scm_from_intptr_t(H, i)

\* --------------------------------------------- the shim: src/reexports.c
\* gargoyle: the revision the header reexports.h is shipped with.
GARGOYLE_REEXPORTS_SCM_BOOL_T == SCM_BOOL_T
GARGOYLE_REEXPORTS_SCM_BOOL_F == SCM_BOOL_F
GARGOYLE_REEXPORTS_SCM_EOL == SCM_EOL
GARGOYLE_REEXPORTS_SCM_UNDEFINED == SCM_UNDEFINED
GARGOYLE_REEXPORTS_SCM_F_DYNWIND_REWINDABLE == C_int(SCM_F_DYNWIND_REWINDABLE)
GARGOYLE_REEXPORTS_SCM_F_WIND_EXPLICITLY == C_int(SCM_F_WIND_EXPLICITLY)

gargoyle_reexports_scm_is_true(b) == C_int(scm_is_true(b))
gargoyle_reexports_scm_is_false(b) == C_int(scm_is_false(b))
GARGOYLE_REEXPORTS_SCM_UNBNDP(scm) == C_int(SCM_UNBNDP(scm))
\* Mutant: the unsigned wrapper casts the signed conversion's result.
gargoyle_reexports_scm_to_uintptr_t_Cast(H, scm) ==
  LET o == scm_to_intptr_t(H, scm)
  IN  IF o.status = "returned" THEN [o EXCEPT !.val = C_uintptr(@)] ELSE o
gargoyle_reexports_scm_to_uintptr_t(H, scm) == scm_to_uintptr_t(H, scm)
gargoyle_reexports_scm_to_intptr_t(H, scm) == scm_to_intptr_t(H, scm)
gargoyle_reexports_scm_from_uintptr_t(H, i) == scm_from_uintptr_t(H, i)
gargoyle_reexports_scm_from_intptr_t(H, i) == scm_from_intptr_t(H, i)

\* ------------------------------------------------ the shim: part_001
\* gargoyle, the oldest revision (suffix _old): _Bool predicates.
GARGOYLE_REEXPORTS_SCM_BOOL_T_old == SCM_BOOL_T
GARGOYLE_REEXPORTS_SCM_BOOL_F_old == SCM_BOOL_F
\* Mutant: the unbound sentinel taken for the unspecified value.
GARGOYLE_REEXPORTS_SCM_UNDEFINED_old_Unspecified == SCM_UNSPECIFIED
GARGOYLE_REEXPORTS_SCM_UNDEFINED_old == SCM_UNDEFINED

gargoyle_reexports_scm_is_true_old(b) == C_Bool(scm_is_true(b))
\* Mutant: is-unbound tested against the unspecified value.
GARGOYLE_REEXPORTS_SCM_UNBNDP_old_Unspecified(scm) ==
  C_Bool(scm_is_eq(scm, SCM_UNSPECIFIED))
GARGOYLE_REEXPORTS_SCM_UNBNDP_old(scm) == C_Bool(SCM_UNBNDP(scm))
gargoyle_reexports_scm_to_uintptr_t_old(H, scm) == scm_to_uintptr_t(H, scm)
gargoyle_reexports_scm_to_intptr_t_old(H, scm) == scm_to_intptr_t(H, scm)
\* Mutant: the unsigned wrapper forwards to the signed conversion.
gargoyle_reexports_scm_from_uintptr_t_old_Signed(H, i) ==
  scm_from_intptr_t(H, C_intptr(i))
gargoyle_reexports_scm_from_uintptr_t_old(H, i) == scm_from_uintptr_t(H, i)
gargoyle_reexports_scm_from_intptr_t_old(H, i) == scm_from_intptr_t(H, i)

\* ------------------------------------------------- the symbol tables
\* What each file declares or defines, by name without the project prefix.
Fn(ret, params) == [kind |-> "function", type |-> ret, params |-> params]
Obj(type) == [kind |-> "object", type |-> type, params |-> <<>>]

\* src/reexports.h: the extern declarations.
HeaderDeclarations ==
  [SCM_BOOL_T |-> Obj("const SCM"),
   SCM_BOOL_F |-> Obj("const SCM"),
   SCM_EOL |-> Obj("const SCM"),
   SCM_UNDEFINED |-> Obj("const SCM"),
   SCM_F_DYNWIND_REWINDABLE |-> Obj("const int"),
   SCM_F_WIND_EXPLICITLY |-> Obj("const int"),
   scm_is_true |-> Fn("int", <<"SCM">>),
   scm_is_false |-> Fn("int", <<"SCM">>),
   SCM_HOOK_ARITY |-> Fn("int", <<"SCM">>),
   SCM_IS_A_P |-> Fn("int", <<"SCM", "SCM">>),
   SCM_HOOKP |-> Fn("int", <<"SCM">>),
   SCM_MODULEP |-> Fn("int", <<"SCM">>),
   SCM_UNBNDP |-> Fn("int", <<"SCM">>),
   scm_to_uintptr_t |-> Fn("uintptr_t", <<"SCM">>),
   scm_to_intptr_t |-> Fn("intptr_t", <<"SCM">>),
   scm_from_uintptr_t |-> Fn("SCM", <<"uintptr_t">>),
   scm_from_intptr_t |-> Fn("SCM", <<"intptr_t">>)]

\* part_000 (garguile): the definitions.
Definitions_garguile ==
  [SCM_BOOL_T |-> Obj("const SCM"),
   SCM_BOOL_F |-> Obj("const SCM"),
   SCM_EOL |-> Obj("const SCM"),
   SCM_UNDEFINED |-> Obj("const SCM"),
   SCM_F_DYNWIND_REWINDABLE |-> Obj("const int"),
   SCM_F_WIND_EXPLICITLY |-> Obj("const int"),
   scm_is_true |-> Fn("int", <<"SCM">>),
   scm_is_false |-> Fn("int", <<"SCM">>),
   SCM_HOOK_ARITY |-> Fn("int", <<"SCM">>),
   SCM_HOOKP |-> Fn("int", <<"SCM">>),
   SCM_MODULEP |-> Fn("int", <<"SCM">>),
   SCM_IS_A_P |-> Fn("int", <<"SCM", "SCM">>),
   SCM_UNBNDP |-> Fn("int", <<"SCM">>),
   scm_to_uintptr_t |-> Fn("uintptr_t", <<"SCM">>),
   scm_to_intptr_t |-> Fn("intptr_t", <<"SCM">>),
   scm_from_uintptr_t |-> Fn("SCM", <<"uintptr_t">>),
   scm_from_intptr_t |-> Fn("SCM", <<"intptr_t">>)]

\* src/reexports.c (gargoyle): the definitions.
Definitions_gargoyle ==
  [SCM_BOOL_T |-> Obj("const SCM"),
   SCM_BOOL_F |-> Obj("const SCM"),
   SCM_EOL |-> Obj("const SCM"),
   SCM_UNDEFINED |-> Obj("const SCM"),
   SCM_F_DYNWIND_REWINDABLE |-> Obj("const int"),
   SCM_F_WIND_EXPLICITLY |-> Obj("const int"),
   scm_is_true |-> Fn("int", <<"SCM">>),
   scm_is_false |-> Fn("int", <<"SCM">>),
   SCM_UNBNDP |-> Fn("int", <<"SCM">>),
   scm_to_uintptr_t |-> Fn("uintptr_t", <<"SCM">>),
   scm_to_intptr_t |-> Fn("intptr_t", <<"SCM">>),
   scm_from_uintptr_t |-> Fn("SCM", <<"uintptr_t">>),
   scm_from_intptr_t |-> Fn("SCM", <<"intptr_t">>)]

\* part_001 (gargoyle, the oldest revision): the definitions.
Definitions_gargoyle_old ==
  [SCM_BOOL_T |-> Obj("const SCM"),
   SCM_BOOL_F |-> Obj("const SCM"),
   SCM_UNDEFINED |-> Obj("const SCM"),
   scm_is_true |-> Fn("_Bool", <<"SCM">>),
   SCM_UNBNDP |-> Fn("_Bool", <<"SCM">>),
   scm_to_uintptr_t |-> Fn("uintptr_t", <<"SCM">>),
   scm_to_intptr_t |-> Fn("intptr_t", <<"SCM">>),
   scm_from_uintptr_t |-> Fn("SCM", <<"uintptr_t">>),
   scm_from_intptr_t |-> Fn("SCM", <<"intptr_t">>)]

Definitions(v) ==
  CASE v = "garguile" -> Definitions_garguile
    [] v = "gargoyle" -> Definitions_gargoyle
    [] v = "gargoyle_old" -> Definitions_gargoyle_old

\* ------------------------------------------------- the linked library
Variants == {"garguile", "gargoyle", "gargoyle_old"}

\* The constants each object file defines, by name without the prefix:
\* the read-only data a program linked with that revision holds.
ExportedConstants(v) ==
  CASE v = "garguile" ->
         [SCM_BOOL_T |-> GARGUILE_REEXPORTS_SCM_BOOL_T,
          SCM_BOOL_F |-> GARGUILE_REEXPORTS_SCM_BOOL_F,
          SCM_EOL |-> GARGUILE_REEXPORTS_SCM_EOL,
          SCM_UNDEFINED |-> GARGUILE_REEXPORTS_SCM_UNDEFINED,
          SCM_F_DYNWIND_REWINDABLE |-> GARGUILE_REEXPORTS_SCM_F_DYNWIND_REWINDABLE,
          SCM_F_WIND_EXPLICITLY |-> GARGUILE_REEXPORTS_SCM_F_WIND_EXPLICITLY]
    [] v = "gargoyle" ->
         [SCM_BOOL_T |-> GARGOYLE_REEXPORTS_SCM_BOOL_T,
          SCM_BOOL_F |-> GARGOYLE_REEXPORTS_SCM_BOOL_F,
          SCM_EOL |-> GARGOYLE_REEXPORTS_SCM_EOL,
          SCM_UNDEFINED |-> GARGOYLE_REEXPORTS_SCM_UNDEFINED,
          SCM_F_DYNWIND_REWINDABLE |-> GARGOYLE_REEXPORTS_SCM_F_DYNWIND_REWINDABLE,
          SCM_F_WIND_EXPLICITLY |-> GARGOYLE_REEXPORTS_SCM_F_WIND_EXPLICITLY]
    [] v = "gargoyle_old" ->
         [SCM_BOOL_T |-> GARGOYLE_REEXPORTS_SCM_BOOL_T_old,
          SCM_BOOL_F |-> GARGOYLE_REEXPORTS_SCM_BOOL_F_old,
          SCM_UNDEFINED |-> GARGOYLE_REEXPORTS_SCM_UNDEFINED_old]

\* What libguile's own macro of that name expands to.
HostConstant(name) ==
  CASE name = "SCM_BOOL_T" -> SCM_BOOL_T
    [] name = "SCM_BOOL_F" -> SCM_BOOL_F
    [] name = "SCM_EOL" -> SCM_EOL
    [] name = "SCM_UNDEFINED" -> SCM_UNDEFINED
    [] name = "SCM_F_DYNWIND_REWINDABLE" -> SCM_F_DYNWIND_REWINDABLE
    [] name = "SCM_F_WIND_EXPLICITLY" -> SCM_F_WIND_EXPLICITLY

PredicateOps ==
  {"scm_is_true", "scm_is_false", "SCM_UNBNDP", "SCM_HOOKP", "SCM_MODULEP",
   "SCM_IS_A_P", "SCM_HOOK_ARITY"}
ConversionOps ==
  {"scm_to_uintptr_t", "scm_to_intptr_t", "scm_from_uintptr_t", "scm_from_intptr_t"}

\* The functions each object file defines, by name without the prefix.
ExportedFunctions(v) ==
  {sym \in DOMAIN Definitions(v) : Definitions(v)[sym].kind = "function"}

\* A call of the exported function op of revision v with arguments a (and
\* b): the set of its possible outcomes, none for a function the revision
\* does not define (the program does not link).
WrapperCall(v, op, H, a, b) ==
  CASE v = "garguile" ->
         (CASE op = "scm_is_true" -> {Returned(H, garguile_reexports_scm_is_true(a))}
            [] op = "scm_is_false" -> {Returned(H, garguile_reexports_scm_is_false(a))}
            [] op = "SCM_HOOK_ARITY" -> GARGUILE_REEXPORTS_SCM_HOOK_ARITY(H, a)
            [] op = "SCM_HOOKP" -> {Returned(H, GARGUILE_REEXPORTS_SCM_HOOKP(H, a))}
            [] op = "SCM_MODULEP" -> {Returned(H, GARGUILE_REEXPORTS_SCM_MODULEP(H, a))}
            [] op = "SCM_IS_A_P" -> {Returned(H, GARGUILE_REEXPORTS_SCM_IS_A_P(H, a, b))}
            [] op = "SCM_UNBNDP" -> {Returned(H, GARGUILE_REEXPORTS_SCM_UNBNDP(a))}
            [] op = "scm_to_uintptr_t" -> {garguile_reexports_scm_to_uintptr_t(H, a)}
            [] op = "scm_to_intptr_t" -> {garguile_reexports_scm_to_intptr_t(H, a)}
            [] op = "scm_from_uintptr_t" -> {garguile_reexports_scm_from_uintptr_t(H, a)}
            [] op = "scm_from_intptr_t" -> {garguile_reexports_scm_from_intptr_t(H, a)}
            [] OTHER -> {})
    [] v = "gargoyle" ->
         (CASE op = "scm_is_true" -> {Returned(H, gargoyle_reexports_scm_is_true(a))}
            [] op = "scm_is_false" -> {Returned(H, gargoyle_reexports_scm_is_false(a))}
            [] op = "SCM_UNBNDP" -> {Returned(H, GARGOYLE_REEXPORTS_SCM_UNBNDP(a))}
            [] op = "scm_to_uintptr_t" -> {gargoyle_reexports_scm_to_uintptr_t(H, a)}
            [] op = "scm_to_intptr_t" -> {gargoyle_reexports_scm_to_intptr_t(H, a)}
            [] op = "scm_from_uintptr_t" -> {gargoyle_reexports_scm_from_uintptr_t(H, a)}
            [] op = "scm_from_intptr_t" -> {gargoyle_reexports_scm_from_intptr_t(H, a)}
            [] OTHER -> {})
    [] v = "gargoyle_old" ->
         (CASE op = "scm_is_true" -> {Returned(H, gargoyle_reexports_scm_is_true_old(a))}
            [] op = "SCM_UNBNDP" -> {Returned(H, GARGOYLE_REEXPORTS_SCM_UNBNDP_old(a))}
            [] op = "scm_to_uintptr_t" -> {gargoyle_reexports_scm_to_uintptr_t_old(H, a)}
            [] op = "scm_to_intptr_t" -> {gargoyle_reexports_scm_to_intptr_t_old(H, a)}
            [] op = "scm_from_uintptr_t" -> {gargoyle_reexports_scm_from_uintptr_t_old(H, a)}
            [] op = "scm_from_intptr_t" -> {gargoyle_reexports_scm_from_intptr_t_old(H, a)}
            [] OTHER -> {})

\* The wrapped libguile construct itself, called on the same arguments,
\* with the value it yields in its own type.
HostCall(op, H, a, b) ==
  CASE op = "scm_is_true" -> {Returned(H, scm_is_true(a))}
    [] op = "scm_is_false" -> {Returned(H, scm_is_false(a))}
    [] op = "SCM_HOOK_ARITY" -> SCM_HOOK_ARITY(H, a)
    [] op = "SCM_HOOKP" -> {Returned(H, SCM_HOOKP(H, a))}
    [] op = "SCM_MODULEP" -> {Returned(H, SCM_MODULEP(H, a))}
    [] op = "SCM_IS_A_P" -> {Returned(H, SCM_IS_A_P(H, a, b))}
    [] op = "SCM_UNBNDP" -> {Returned(H, SCM_UNBNDP(a))}
    [] op = "scm_to_uintptr_t" -> {scm_to_uintptr_t(H, a)}
    [] op = "scm_to_intptr_t" -> {scm_to_intptr_t(H, a)}
    [] op = "scm_from_uintptr_t" -> {scm_from_uintptr_t(H, a)}
    [] op = "scm_from_intptr_t" -> {scm_from_intptr_t(H, a)}

\* ---------------------------------------------------------- the client
\* A program links one revision of the shim (variant) beside libguile and
\* calls it.  exported is the shim's read-only data, heap libguile's heap.
\*   last         the latest predicate call and its outcome
\*   num, val     the client's integer and SCM locals, fed to conversions
\*   hist         the conversion calls made so far, in order
\*   thr          the calls in flight, one per thread
VARIABLES variant, exported, heap, last, num, val, hist, thr

vars == <<variant, exported, heap, last, num, val, hist, thr>>

NoCall == [op |-> "none", a |-> 0, b |-> 0, status |-> "none", val |-> 0]
CallRecord(op, a, b, o) ==
  [op |-> op, a |-> a, b |-> b, status |-> o.status, val |-> o.val]

Threads == 1 .. NThreads
Idle == [pc |-> "idle", op |-> "none", a |-> 0, b |-> 0, status |-> "none", val |-> 0]

\* The SCM values a client passes: every flag, three fixnums and every
\* object of the booted heap.
Flags ==
  {SCM_BOOL_F, SCM_ELISP_NIL, SCM_EOL, SCM_BOOL_T, SCM_UNSPECIFIED, SCM_UNDEFINED}
Fixnums == {SCM_I_MAKINUM(0), SCM_I_MAKINUM(1), SCM_I_MAKINUM(-1)}
Values == Flags \cup Fixnums \cup DOMAIN BootCells
\* The class arguments of SCM_IS_A_P: every class, and two values that are none.
Types ==
  {A_class_class, A_class_top, A_class_object, A_classA, A_classB, SCM_BOOL_F, A_pair}

Linked(v) ==
  /\ variant = v
  /\ exported = ExportedConstants(v)
  /\ heap = BootHeap
  /\ last = NoCall
  /\ hist = <<>>
  /\ thr = [t \in Threads |-> Idle]

\* -------------------------------------------- Spec: the predicate calls
Init ==
  /\ \E v \in Variants : Linked(v)
  /\ num = 0
  /\ val = SCM_UNDEFINED

\* One call of a predicate wrapper: a process that faulted makes no more.
CanCall(op) == op \in ExportedFunctions(variant) /\ last.status # "fault"

Call_scm_is_true ==
  \E x \in Values : \E o \in WrapperCall(variant, "scm_is_true", Mem(heap), x, 0) :
    /\ CanCall("scm_is_true")
    /\ last' = CallRecord("scm_is_true", x, 0, o)
    /\ heap' = Allocated(o.H)
    /\ UNCHANGED <<variant, exported, num, val, hist, thr>>

Call_scm_is_false ==
  \E x \in Values : \E o \in WrapperCall(variant, "scm_is_false", Mem(heap), x, 0) :
    /\ CanCall("scm_is_false")
    /\ last' = CallRecord("scm_is_false", x, 0, o)
    /\ heap' = Allocated(o.H)
    /\ UNCHANGED <<variant, exported, num, val, hist, thr>>

Call_SCM_UNBNDP ==
  \E x \in Values : \E o \in WrapperCall(variant, "SCM_UNBNDP", Mem(heap), x, 0) :
    /\ CanCall("SCM_UNBNDP")
    /\ last' = CallRecord("SCM_UNBNDP", x, 0, o)
    /\ heap' = Allocated(o.H)
    /\ UNCHANGED <<variant, exported, num, val, hist, thr>>

Call_SCM_HOOK_ARITY ==
  \E x \in Values : \E o \in WrapperCall(variant, "SCM_HOOK_ARITY", Mem(heap), x, 0) :
    /\ CanCall("SCM_HOOK_ARITY")
    /\ last' = CallRecord("SCM_HOOK_ARITY", x, 0, o)
    /\ heap' = Allocated(o.H)
    /\ UNCHANGED <<variant, exported, num, val, hist, thr>>

Call_SCM_HOOKP ==
  \E x \in Values : \E o \in WrapperCall(variant, "SCM_HOOKP", Mem(heap), x, 0) :
    /\ CanCall("SCM_HOOKP")
    /\ last' = CallRecord("SCM_HOOKP", x, 0, o)
    /\ heap' = Allocated(o.H)
    /\ UNCHANGED <<variant, exported, num, val, hist, thr>>

Call_SCM_MODULEP ==
  \E x \in Values : \E o \in WrapperCall(variant, "SCM_MODULEP", Mem(heap), x, 0) :
    /\ CanCall("SCM_MODULEP")
    /\ last' = CallRecord("SCM_MODULEP", x, 0, o)
    /\ heap' = Allocated(o.H)
    /\ UNCHANGED <<variant, exported, num, val, hist, thr>>

Call_SCM_IS_A_P ==
  \E x \in Values, ty \in Types :
    \E o \in WrapperCall(variant, "SCM_IS_A_P", Mem(heap), x, ty) :
      /\ CanCall("SCM_IS_A_P")
      /\ last' = CallRecord("SCM_IS_A_P", x, ty, o)
      /\ heap' = Allocated(o.H)
      /\ UNCHANGED <<variant, exported, num, val, hist, thr>>

Next ==
  \/ Call_scm_is_true
  \/ Call_scm_is_false
  \/ Call_SCM_UNBNDP
  \/ Call_SCM_HOOK_ARITY
  \/ Call_SCM_HOOKP
  \/ Call_SCM_MODULEP
  \/ Call_SCM_IS_A_P

Spec == Init /\ [][Next]_vars

\* ------------------------------------- SpecConv: the integer conversions
\* The round trip from_int (to_int (from_int (n))): the client holds an
\* integer num, any value of intptr_t or uintptr_t, and an SCM val.  Its
\* first and third calls are a from_ wrapper, which is passed num and whose
\* SCM it stores in val; its second is a to_ wrapper, which is passed val
\* and whose integer it stores in num.  Each call picks its signedness.  A
\* throw leaves by a non-local exit to the client's handler, which stores
\* nothing and goes on.
InitConv ==
  /\ \E v \in Variants : Linked(v)
  /\ num \in INTPTR_MIN .. UINTPTR_MAX
  /\ val = SCM_UNDEFINED

CanConvert(op) ==
  /\ op \in ExportedFunctions(variant)
  /\ IF op \in {"scm_from_uintptr_t", "scm_from_intptr_t"}
     THEN Len(hist) \in {0, 2} ELSE Len(hist) = 1

Call_scm_from_uintptr_t ==
  \E o \in WrapperCall(variant, "scm_from_uintptr_t", Mem(heap), num, 0) :
    /\ CanConvert("scm_from_uintptr_t")
    /\ num \in UintptrRange
    /\ hist' = Append(hist, CallRecord("scm_from_uintptr_t", num, 0, o))
    /\ heap' = Allocated(o.H)
    /\ val' = IF o.status = "returned" THEN o.val ELSE val
    /\ UNCHANGED <<variant, exported, last, num, thr>>

Call_scm_from_intptr_t ==
  \E o \in WrapperCall(variant, "scm_from_intptr_t", Mem(heap), num, 0) :
    /\ CanConvert("scm_from_intptr_t")
    /\ num \in IntptrRange
    /\ hist' = Append(hist, CallRecord("scm_from_intptr_t", num, 0, o))
    /\ heap' = Allocated(o.H)
    /\ val' = IF o.status = "returned" THEN o.val ELSE val
    /\ UNCHANGED <<variant, exported, last, num, thr>>

Call_scm_to_uintptr_t ==
  \E o \in WrapperCall(variant, "scm_to_uintptr_t", Mem(heap), val, 0) :
    /\ CanConvert("scm_to_uintptr_t")
    /\ hist' = Append(hist, CallRecord("scm_to_uintptr_t", val, 0, o))
    /\ heap' = Allocated(o.H)
    /\ num' = IF o.status = "returned" THEN o.val ELSE num
    /\ UNCHANGED <<variant, exported, last, val, thr>>

Call_scm_to_intptr_t ==
  \E o \in WrapperCall(variant, "scm_to_intptr_t", Mem(heap), val, 0) :
    /\ CanConvert("scm_to_intptr_t")
    /\ hist' = Append(hist, CallRecord("scm_to_intptr_t", val, 0, o))
    /\ heap' = Allocated(o.H)
    /\ num' = IF o.status = "returned" THEN o.val ELSE num
    /\ UNCHANGED <<variant, exported, last, val, thr>>

NextConv ==
  \/ Call_scm_from_uintptr_t
  \/ Call_scm_from_intptr_t
  \/ Call_scm_to_uintptr_t
  \/ Call_scm_to_intptr_t

SpecConv == InitConv /\ [][NextConv]_vars

\* --------------------------------------- SpecThreads: concurrent callers
\* Each thread makes one call: it enters a wrapper with its arguments
\* (Enter), and the wrapper's body, the one call into libguile, runs and
\* returns (Leave).  Between the two any other thread may run.  The
\* arguments are in the domain of the wrapped construct.
ThreadArgs(op) ==
  CASE op = "scm_is_true" -> {<<SCM_BOOL_T, 0>>}
    [] op = "scm_is_false" -> {<<SCM_ELISP_NIL, 0>>}
    [] op = "SCM_UNBNDP" -> {<<SCM_UNDEFINED, 0>>}
    [] op = "SCM_HOOKP" -> {<<A_hook2, 0>>}
    [] op = "SCM_MODULEP" -> {<<A_module, 0>>}
    [] op = "SCM_HOOK_ARITY" -> {<<A_hook2, 0>>}
    [] op = "SCM_IS_A_P" -> {<<A_instA, A_classA>>}
    [] op = "scm_from_intptr_t" -> {<<INTPTR_MIN, 0>>}
    [] op = "scm_from_uintptr_t" -> {<<UINTPTR_MAX, 0>>}
    [] op = "scm_to_intptr_t" -> {<<SCM_I_MAKINUM(-1), 0>>}
    [] op = "scm_to_uintptr_t" -> {<<A_big, 0>>}

InitThreads ==
  /\ \E v \in Variants : Linked(v)
  /\ num = 0
  /\ val = SCM_UNDEFINED

Enter(t) ==
  \E op \in ExportedFunctions(variant) : \E args \in ThreadArgs(op) :
    /\ thr[t].pc = "idle"
    /\ thr' = [thr EXCEPT ![t] = [Idle EXCEPT !.pc = "called", !.op = op,
                                              !.a = args[1], !.b = args[2]]]
    /\ UNCHANGED <<variant, exported, heap, last, num, val, hist>>

\* Mutant: the body takes a lock that a thread in a call holds.
Leave_Locked(t) ==
  \E o \in WrapperCall(variant, thr[t].op, Mem(heap), thr[t].a, thr[t].b) :
    /\ thr[t].pc = "called"
    /\ \A u \in Threads \ {t} : thr[u].pc # "called"
    /\ thr' = [thr EXCEPT ![t] = [@ EXCEPT !.pc = "done", !.status = o.status,
                                           !.val = o.val]]
    /\ heap' = Allocated(o.H)
    /\ UNCHANGED <<variant, exported, last, num, val, hist>>

Leave(t) ==
  \E o \in WrapperCall(variant, thr[t].op, Mem(heap), thr[t].a, thr[t].b) :
    /\ thr[t].pc = "called"
    /\ thr' = [thr EXCEPT ![t] = [@ EXCEPT !.pc = "done", !.status = o.status,
                                           !.val = o.val]]
    /\ heap' = Allocated(o.H)
    /\ UNCHANGED <<variant, exported, last, num, val, hist>>

NextThreads == \E t \in Threads : Enter(t) \/ Leave(t)

SpecThreads ==
  /\ InitThreads
  /\ [][NextThreads]_vars
  /\ \A t \in Threads : WF_vars(Leave(t))

\* ================================================================ claims
\* What a call left behind, without the heap.
Result(o) == [status |-> o.status, val |-> o.val]
LastResult == [status |-> last.status, val |-> last.val]

\* ------------------------------------------------------------------ C1
\* The wrapper's outcome is the outcome of the wrapped macro on the same
\* arguments: the macro has one outcome, it returns, and the wrapper
\* returned that value.
AgreesWithMacro ==
  \A o \in HostCall(last.op, Mem(heap), last.a, last.b) :
    o.status = "returned" /\ LastResult = Result(o)

\* C1 as stated: for every predicate wrapper (SCM_HOOK_ARITY among them)
\* and every host value x, the wrapper returns what the wrapped macro
\* yields on x.
C1_Original == last.op \in PredicateOps => AgreesWithMacro

\* C1, amended: for every predicate wrapper that a revision defines, the
\* value the wrapper returns equals the value of the wrapped macro on the
\* same arguments, unchanged by the declared return type (int or _Bool):
\* for every host value x, and for SCM_HOOK_ARITY for every x that is a hook.
C1_WrapperEqualsMacro ==
  /\ last.op \in PredicateOps
  /\ last.op = "SCM_HOOK_ARITY" => SCM_HOOKP(Mem(heap), last.a) # 0
  => AgreesWithMacro

C1_Witness ==
  /\ variant = "garguile"
  /\ last.op = "SCM_HOOK_ARITY"
  /\ last.a = A_hook16
  /\ last.status = "returned"
  /\ last.val = 16

\* ------------------------------------------------------------------ C4
\* C4: every function and constant reexports.h declares is defined by
\* src/reexports.c, the source compiled against it, under the same name
\* and with the same signature.
C4_HeaderDefined ==
  variant = "gargoyle" =>
    \A sym \in DOMAIN HeaderDeclarations :
      /\ sym \in DOMAIN Definitions(variant)
      /\ Definitions(variant)[sym] = HeaderDeclarations[sym]

\* ------------------------------------------------------------------ C6
\* C6: the truthiness wrapper returns nonzero on the exported true
\* constant and zero on the exported false constant; the is-unbound
\* wrapper returns nonzero on the exported unbound sentinel, on which the
\* truthiness wrapper returns what libguile's scm_is_true yields.
C6_Scenario ==
  /\ last.op = "scm_is_true" /\ last.a = exported.SCM_BOOL_T
       => last.status = "returned" /\ last.val # 0
  /\ last.op = "scm_is_true" /\ last.a = exported.SCM_BOOL_F
       => last.status = "returned" /\ last.val = 0
  /\ last.op = "SCM_UNBNDP" /\ last.a = exported.SCM_UNDEFINED
       => last.status = "returned" /\ last.val # 0
  /\ last.op = "scm_is_true" /\ last.a = exported.SCM_UNDEFINED
       => last.status = "returned" /\ last.val = scm_is_true(SCM_UNDEFINED)

C6_Witness ==
  /\ variant = "gargoyle_old"
  /\ last.op = "SCM_UNBNDP"
  /\ last.a = exported.SCM_UNDEFINED
  /\ last.val = 1

\* ------------------------------------------------------------------ C7
OldRevision == "gargoyle_old"
NewRevision == "garguile"
AddedByNewRevision == DOMAIN Definitions(NewRevision) \ DOMAIN Definitions(OldRevision)

\* The new revision's wrapper of the same name has the same outcomes, on
\* the call just made and on every argument of every conversion.
SameResultsInNewRevision ==
  /\ last.op # "none" =>
       {Result(o) : o \in WrapperCall(NewRevision, last.op, Mem(heap), last.a, last.b)}
         = {LastResult}
  /\ \A op \in {"scm_from_intptr_t", "scm_to_intptr_t", "scm_from_uintptr_t",
                "scm_to_uintptr_t"} :
       \A x \in (CASE op = "scm_from_intptr_t" -> IntptrRange
                   [] op = "scm_from_uintptr_t" -> UintptrRange
                   [] OTHER -> Values) :
         WrapperCall(OldRevision, op, Mem(heap), x, 0)
           = WrapperCall(NewRevision, op, Mem(heap), x, 0)

\* C7 as stated: the older revision lacks exactly hook-arity, the hook,
\* module and class-instance predicates and the empty-list and unwind-flag
\* constants, and every symbol it has the newer one has with the same
\* signature and the same result for every input.
C7_Original ==
  variant = OldRevision =>
    /\ AddedByNewRevision =
         {"SCM_HOOK_ARITY", "SCM_HOOKP", "SCM_MODULEP", "SCM_IS_A_P", "SCM_EOL",
          "SCM_F_DYNWIND_REWINDABLE", "SCM_F_WIND_EXPLICITLY"}
    /\ \A sym \in DOMAIN Definitions(OldRevision) :
         /\ sym \in DOMAIN Definitions(NewRevision)
         /\ Definitions(NewRevision)[sym] = Definitions(OldRevision)[sym]
    /\ SameResultsInNewRevision

\* C7, amended: the older revision lacks exactly hook-arity, the hook,
\* module and class-instance predicates, the empty-list and unwind-flag
\* constants and the falsity wrapper; every symbol it has the newer one
\* has with the same parameters and the same result for every input, and
\* with the same type except that the truthiness and is-unbound wrappers
\* return _Bool in the older revision and int in the newer.
C7_StrictSubset ==
  variant = OldRevision =>
    /\ AddedByNewRevision =
         {"SCM_HOOK_ARITY", "SCM_HOOKP", "SCM_MODULEP", "SCM_IS_A_P", "SCM_EOL",
          "SCM_F_DYNWIND_REWINDABLE", "SCM_F_WIND_EXPLICITLY", "scm_is_false"}
    /\ \A sym \in DOMAIN Definitions(OldRevision) :
         /\ sym \in DOMAIN Definitions(NewRevision)
         /\ Definitions(NewRevision)[sym].kind = Definitions(OldRevision)[sym].kind
         /\ Definitions(NewRevision)[sym].params = Definitions(OldRevision)[sym].params
         /\ IF sym \in {"scm_is_true", "SCM_UNBNDP"}
            THEN /\ Definitions(OldRevision)[sym].type = "_Bool"
                 /\ Definitions(NewRevision)[sym].type = "int"
            ELSE Definitions(NewRevision)[sym].type = Definitions(OldRevision)[sym].type
    /\ SameResultsInNewRevision

C7_Witness ==
  /\ variant = OldRevision
  /\ last.op = "scm_is_true"
  /\ last.a = A_instA
  /\ last.val = 1

\* ------------------------------------------------------------------ C9
TheOther(op) == IF op = "scm_is_true" THEN "scm_is_false" ELSE "scm_is_true"

\* C9: on every host value (the host's nil among them) the truthiness and
\* falsity wrappers each return 0 or 1, and exactly one of them nonzero.
C9_Complement ==
  /\ last.op \in {"scm_is_true", "scm_is_false"}
  /\ TheOther(last.op) \in ExportedFunctions(variant)
  => /\ last.status = "returned"
     /\ last.val \in {0, 1}
     /\ {Result(o) : o \in WrapperCall(variant, TheOther(last.op), Mem(heap), last.a, 0)}
          = {[status |-> "returned", val |-> 1 - last.val]}

C9_Witness ==
  /\ variant = "gargoyle"
  /\ last.op = "scm_is_false"
  /\ last.a = SCM_ELISP_NIL
  /\ last.val = 1

\* ------------------------------------------------------------------ C2
\* C2: in every state any sequence of calls reaches, each constant the
\* linked revision exports holds the value of libguile's macro of that
\* name: no call changes it.
C2_ConstantsFixed ==
  /\ DOMAIN exported = {sym \in DOMAIN Definitions(variant) :
                          Definitions(variant)[sym].kind = "object"}
  /\ \A name \in DOMAIN exported : exported[name] = HostConstant(name)

\* After a round trip that allocated a bignum and met a throw.
C2_Witness ==
  /\ variant = "garguile"
  /\ Len(hist) = 3
  /\ hist[2].status = "throw"
  /\ heap.brk > HeapStart
  /\ exported.SCM_EOL = SCM_EOL

\* ------------------------------------------------------- C3, C5, C10
IsFrom(op) == op \in {"scm_from_uintptr_t", "scm_from_intptr_t"}
IsTo(op) == op \in {"scm_to_uintptr_t", "scm_to_intptr_t"}
Signedness(op) ==
  IF op \in {"scm_from_uintptr_t", "scm_to_uintptr_t"} THEN "unsigned" ELSE "signed"
TargetRange(op) == IF Signedness(op) = "unsigned" THEN UintptrRange ELSE IntptrRange

\* The first two calls were from_ and to_ of one signedness, and from_
\* returned.
FromThenTo ==
  /\ Len(hist) >= 2
  /\ IsFrom(hist[1].op) /\ hist[1].status = "returned"
  /\ IsTo(hist[2].op) /\ Signedness(hist[2].op) = Signedness(hist[1].op)

\* ... and the third was from_ of that signedness again.
RoundTrip ==
  /\ FromThenTo
  /\ Len(hist) = 3
  /\ IsFrom(hist[3].op) /\ Signedness(hist[3].op) = Signedness(hist[1].op)

\* C3: for each signedness and every n of the type, 0 and both extrema
\* among them, from_int (to_int (from_int (n))) is the same host value as
\* from_int (n): every call of the round trip returns, and the two SCMs
\* are eqv? (the same exact integer n; the same word when n is a fixnum).
C3_RoundTripSameValue ==
  RoundTrip =>
    /\ hist[2].status = "returned"
    /\ hist[3].status = "returned"
    /\ scm_eqv_p(Mem(heap), hist[1].val, hist[3].val)
    /\ IsExactInteger(Mem(heap), hist[3].val)
    /\ IntegerValue(Mem(heap), hist[3].val) = hist[1].a
    /\ SCM_FIXABLE(hist[1].a) => hist[3].val = hist[1].val

\* The round trip of the minimum of intptr_t, through two bignums.
C3_Witness ==
  /\ RoundTrip
  /\ hist[1].op = "scm_from_intptr_t"
  /\ hist[1].a = INTPTR_MIN
  /\ hist[3].status = "returned"
  /\ hist[3].val # hist[1].val

\* C10: for each signedness and every n of the type, to_int (from_int (n))
\* returns n and raises no error.
C10_ToOfFrom ==
  FromThenTo =>
    /\ hist[2].a = hist[1].val
    /\ hist[2].status = "returned"
    /\ hist[2].val = hist[1].a
    /\ num = hist[1].a

C10_Witness ==
  /\ FromThenTo
  /\ hist[1].op = "scm_from_uintptr_t"
  /\ hist[1].a = UINTPTR_MAX
  /\ hist[2].status = "returned"
  /\ hist[2].val = UINTPTR_MAX

\* C5: a to_ wrapper called on an integer outside its target type leaves
\* by libguile's out-of-range throw, as the wrapped function does: it
\* returns no integer, the client's integer stays what it was, and the
\* exported constants stay what they were.
C5_OutOfRangeThrows ==
  \A i \in 1 .. Len(hist) :
    /\ IsTo(hist[i].op)
    /\ IsExactInteger(Mem(heap), hist[i].a)
    /\ IntegerValue(Mem(heap), hist[i].a) \notin TargetRange(hist[i].op)
    => /\ hist[i].status = "throw"
       /\ hist[i].val = "out-of-range"
       /\ \A o \in HostCall(hist[i].op, Mem(heap), hist[i].a, 0) :
            Result(o) = [status |-> hist[i].status, val |-> hist[i].val]
       /\ num = hist[1].a
       /\ exported = ExportedConstants(variant)

C5_Witness ==
  /\ Len(hist) = 2
  /\ hist[1].op = "scm_from_intptr_t"
  /\ hist[1].a = -1
  /\ hist[2].op = "scm_to_uintptr_t"
  /\ hist[2].status = "throw"

\* ------------------------------------------------------------------ C8
\* A call in flight can always complete, whatever the other threads do.
NoWaiting == \A t \in Threads : thr[t].pc = "called" => ENABLED Leave(t)

\* A completed call has the outcome the same call has when it runs alone
\* on the booted heap: the same status and value, and for a from_ call,
\* whose SCM may be a fresh cell, an SCM of the same exact integer.
SameAsAlone ==
  \A t \in Threads :
    thr[t].pc = "done" =>
      \A o \in WrapperCall(variant, thr[t].op, Mem(BootHeap), thr[t].a, thr[t].b) :
        /\ o.status = thr[t].status
        /\ IF IsFrom(thr[t].op)
           THEN /\ IsExactInteger(Mem(heap), thr[t].val)
                /\ IntegerValue(Mem(heap), thr[t].val) = IntegerValue(o.H, o.val)
           ELSE o.val = thr[t].val

\* C8: with any number of threads calling the wrappers concurrently on
\* arguments in their domain, under every interleaving no call ever waits
\* for another, every call returns what it returns alone, and every call
\* that was entered completes.
C8_NoInterference ==
  /\ [](NoWaiting /\ SameAsAlone)
  /\ \A t \in Threads : (thr[t].pc = "called") ~> (thr[t].pc = "done")

\* Two threads allocated: the second got the cell after the first's.
C8_Witness ==
  /\ \A t \in Threads : thr[t].pc = "done"
  /\ thr[1].op = "scm_from_intptr_t"
  /\ thr[1].a = INTPTR_MIN
  /\ thr[1].val = HeapStart + Addr(1)
  /\ thr[2].op = "scm_from_uintptr_t"
  /\ thr[2].val = HeapStart

=============================================================================
